---------------------------- MODULE Spec2Model ----------------------------
(***************************************************************************)
(* Model of the Magic Studio relay: get_magic_image, the retry loop that   *)
(* posts a prompt to the upstream art generator, in its two variants:      *)
(*   "index"  src/api/index.py  fresh credentials on every attempt         *)
(*   "app"    src/app.py        process-wide credentials, replaced on 422  *)
(* with the Flask handler in front of it (handle_generation_request) and   *)
(* app.py's /refresh-keys.  Requests are served by concurrent threads, one *)
(* thread for each request (app.py runs Flask with threaded=True).         *)
(* A Python str is a TLA+ string, but for the prompt, which is the         *)
(* sequence of its code points, so that it can hold any character; a value *)
(* that can also be None is kept as None or Str(s), so that None and the   *)
(* string "None" are two values.                                           *)
(***************************************************************************)
EXTENDS Integers, Sequences, FiniteSets, TLC

(***************************************************************************)
(* Bounds of the model.                                                    *)
(***************************************************************************)
\* Requests that enter get_magic_image or generate_new_keys in one run of the
\* process.
MaxCalls == 2

\* The request threads of the process.
Threads == {"t1", "t2"}

\* The deployments: which of the two source files the process runs.
Variants == {"index", "app"}

(***************************************************************************)
(* Program constants and small helpers.                                    *)
(***************************************************************************)
\* Python's None, and a str where None can stand too.  Str(s)[1] is s.
None == <<>>

Str(s) == <<s>>

\* Python truthiness of a value that is a str or None: a str that is not
\* empty.
Truthy(v) == v # None /\ Len(v[1]) > 0

\* Python truthiness of bytes: response.content is not empty.
TruthyBytes(b) == b # ""

\* Mutant: one attempt too many.
max_retries_four == 2 + 2

\* max_retries = 3
max_retries == 3

\* time.sleep(2) after a timeout or network error.
sleep_after_exception == 2

\* Mutant: the same wait after a 422 as after an exception.
sleep_after_422_long == sleep_after_exception

\* time.sleep(1) after a 422.
sleep_after_422 == 1

\* response.text[:500]
details_limit == 500

\* requests.post(..., timeout=30): the seconds without a byte from the upstream
\* after which the post raises a timeout.
ReadTimeout == 30

\* Python's s[:n].
Prefix(s, n) == SubSeq(s, 1, IF Len(s) < n THEN Len(s) ELSE n)

\* Python's `sub in s` on strings.
Contains(s, sub) ==
    \E i \in 1..(Len(s) - Len(sub) + 1) : SubSeq(s, i, i + Len(sub) - 1) = sub

\* str(uuid.uuid4()): the n-th draw made by call number c of the process (call 0
\* is the module's own start-up code).  Two draws never give the same string (a
\* collision of two random 122-bit values is not modelled).
Uuid(c, n) == "uuid-" \o ToString(c) \o "-" \o ToString(n)

RECURSIVE Repeat(_, _)
Repeat(s, n) == IF n = 0 THEN "" ELSE s \o Repeat(s, n - 1)

(***************************************************************************)
(* What one requests.post can do: return a response or raise.              *)
(* A response has a status code, headers (<<name, value>> in order), its   *)
(* body as bytes (content) and the body decoded (text).  exc names the     *)
(* class of the exception raised, "" when the call returns; text then      *)
(* holds str(e).                                                           *)
(***************************************************************************)
Response(status, headers, content, text) ==
    [exc |-> "", status_code |-> status, headers |-> headers,
     content |-> content, text |-> text]

Raised(exc, message) ==
    [exc |-> exc, status_code |-> 0, headers |-> <<>>,
     content |-> "", text |-> message]

\* A body longer than the 500 characters kept as details.
LongBody == Repeat("0123456789", 51)

Outcomes ==
    { Response(200, <<<<"Content-Type", "image/png">>>>, "PNG-bytes-1", "?PNG-text-1"),
      Response(200, <<<<"Content-Type", "image/jpeg">>>>, "JPEG-bytes-2", "?JPEG-text-2"),
      Response(200, <<<<"Content-Type", "image/png">>>>, "", ""),
      Response(200, <<<<"Content-Type", "text/plain">>>>, "hello", "hello"),
      Response(200, <<<<"content-type", "image/webp">>>>, "WEBP-bytes-3", "?WEBP-text-3"),
      Response(200, <<>>, "PNG-bytes-1", "?PNG-text-1"),
      Response(200, <<<<"Content-Type", "text/plain">>, <<"content-type", "image/png">>>>,
               "PNG-bytes-4", "?PNG-text-4"),
      Response(422, <<<<"Content-Type", "application/json">>>>,
               "{\"detail\":\"bad ids\"}", "{\"detail\":\"bad ids\"}"),
      Response(503, <<<<"Content-Type", "text/html">>>>,
               "Service Unavailable", "Service Unavailable"),
      Response(500, <<<<"Content-Type", "text/html">>>>, LongBody, LongBody),
      Response(201, <<<<"Content-Type", "image/png">>>>, "PNG-bytes-1", "?PNG-text-1"),
      Raised("ReadTimeout", "Read timed out. (read timeout=30)"),
      Raised("ConnectionError", "Connection refused"),
      Raised("InvalidSchema",
             "No connection adapters were found for 'ftp://elsewhere.example/x'"),
      Raised("UnicodeEncodeError",
             "'utf-8' codec can't encode character '\\ud800' in position 0: "
             \o "surrogates not allowed") }

\* requests.post not returning: timeout=30 bounds each wait for bytes, not the
\* call, so a post to an upstream that keeps sending a little stays in the call.
Hang == Raised("(blocked)", "")

\* requests.post(api_url, data=payload_data, headers=headers, timeout=30)
\* returns a response, raises, or does not return.
PostOutcomes == Outcomes \cup {Hang}

\* str.lower() on ASCII letters, as the CaseInsensitiveDict applies it to the
\* names of headers.
AsciiUpper == "ABCDEFGHIJKLMNOPQRSTUVWXYZ"
AsciiLower == "abcdefghijklmnopqrstuvwxyz"

LowerOf ==
    [c \in {SubSeq(AsciiUpper, i, i) : i \in 1..Len(AsciiUpper)} |->
        LET i == CHOOSE i \in 1..Len(AsciiUpper) : SubSeq(AsciiUpper, i, i) = c
        IN  SubSeq(AsciiLower, i, i)]

LowerChar(c) == IF c \in DOMAIN LowerOf THEN LowerOf[c] ELSE c

\* a.lower() == b.lower()
SameName(a, b) ==
    /\ Len(a) = Len(b)
    /\ \A i \in 1..Len(a) :
          \/ SubSeq(a, i, i) = SubSeq(b, i, i)
          \/ LowerChar(SubSeq(a, i, i)) = LowerChar(SubSeq(b, i, i))

\* The values of the headers named `name`, whatever the case, in their order.
RECURSIVE ValuesOf(_, _)
ValuesOf(headers, name) ==
    IF headers = <<>> THEN <<>>
    ELSE IF SameName(headers[1][1], name)
    THEN <<headers[1][2]>> \o ValuesOf(Tail(headers), name)
    ELSE ValuesOf(Tail(headers), name)

\* ', '.join(values)
RECURSIVE Join(_)
Join(values) ==
    IF Len(values) = 1 THEN values[1]
    ELSE values[1] \o ", " \o Join(Tail(values))

\* response.headers.get(name, default): the headers are a CaseInsensitiveDict,
\* which finds a header whatever the case of its name; the values of a header
\* received more than once are joined by ', '.
HeaderGet(headers, name, default) ==
    IF ValuesOf(headers, name) = <<>>
    THEN default
    ELSE Join(ValuesOf(headers, name))

(***************************************************************************)
(* HTTP requests and responses of the Flask application.                   *)
(***************************************************************************)
\* The characters a prompt is written with here, with the code point of the
\* first of each run: the space, the digits and the ASCII letters.
AsciiDigits == "0123456789"

AsciiRuns == {<<32, " ">>, <<48, AsciiDigits>>, <<65, AsciiUpper>>, <<97, AsciiLower>>}

\* ord(c) of one of these characters.
Ord(c) ==
    LET run == CHOOSE r \in AsciiRuns :
                   \E i \in 1..Len(r[2]) : SubSeq(r[2], i, i) = c
        at == CHOOSE i \in 1..Len(run[2]) : SubSeq(run[2], i, i) = c
    IN  run[1] + at - 1

\* The prompt written s: the code points of a str of these characters.
RECURSIVE Text(_)
Text(s) ==
    IF s = "" THEN <<>>
    ELSE <<Ord(SubSeq(s, 1, 1))>> \o Text(SubSeq(s, 2, Len(s)))

\* str.isspace() of one character, by its code point: the characters that
\* str.strip() removes when it is given no argument.
IsSpace(c) ==
    c \in { 9,        \* character tabulation
            10,       \* line feed
            11,       \* line tabulation (vertical tab)
            12,       \* form feed
            13,       \* carriage return
            28,       \* file separator
            29,       \* group separator
            30,       \* record separator
            31,       \* unit separator
            32,       \* space
            133,      \* next line, U+0085
            160,      \* no-break space, U+00A0
            5760,     \* ogham space mark, U+1680
            8192,     \* en quad, U+2000
            8193,     \* em quad
            8194,     \* en space
            8195,     \* em space
            8196,     \* three-per-em space
            8197,     \* four-per-em space
            8198,     \* six-per-em space
            8199,     \* figure space
            8200,     \* punctuation space
            8201,     \* thin space
            8202,     \* hair space, U+200A
            8232,     \* line separator, U+2028
            8233,     \* paragraph separator, U+2029
            8239,     \* narrow no-break space, U+202F
            8287,     \* medium mathematical space, U+205F
            12288 }   \* ideographic space, U+3000

\* str.lstrip(), str.rstrip() and str.strip() of a sequence of code points.
RECURSIVE LStrip(_)
LStrip(s) ==
    IF Len(s) > 0 /\ IsSpace(s[1])
    THEN LStrip(Tail(s))
    ELSE s

RECURSIVE RStrip(_)
RStrip(s) ==
    IF Len(s) > 0 /\ IsSpace(s[Len(s)])
    THEN RStrip(SubSeq(s, 1, Len(s) - 1))
    ELSE s

Strip(s) == RStrip(LStrip(s))

\* Prompts handed to get_magic_image (already stripped by the handler).
Prompts == {Text("a blue cat"), Text("test"), Text("None")}

\* Prompts of nothing but whitespace: spaces, a tab and a line feed, a vertical
\* tab between spaces, and each of the characters of the ASCII control, Latin-1
\* and Unicode space ranges on its own.
BlankPrompts ==
    {Text("   "), <<32, 9, 10>>, <<32, 11, 32>>, <<12288, 133, 8232>>}
    \cup {<<c>> : c \in (9..13) \cup (28..32) \cup {133, 160, 5760}
                        \cup (8192..8202) \cup {8232, 8233, 8239, 8287, 12288}}

\* Prompts with whitespace around them: a space and a line feed; a vertical
\* tab, a no-break space, an em space and a file separator; an ideographic
\* space, a next line and a line separator.
PaddedPrompts ==
    { <<32>> \o Text("a blue cat") \o <<10>>,
      <<11, 160>> \o Text("test") \o <<8195, 28>>,
      <<12288>> \o Text("None") \o <<133, 8232>> }

\* Prompts of characters that look blank and are no whitespace to Python: a
\* zero width space (U+200B), and a Mongolian vowel separator (U+180E) between
\* a tab and a space.
UnprintedPrompts == {<<8203>>, <<9, 6158, 32>>}

\* What a client can give as the prompt of a request: nothing, an empty or
\* whitespace-only string, or a prompt with or without whitespace around it.
\* Prompts that are not strings (a JSON number, list or object) are left out.
RawPrompts ==
    {None, Str(<<>>)}
    \cup {Str(p) : p \in BlankPrompts \cup Prompts \cup PaddedPrompts
                           \cup UnprintedPrompts}

\* request.host
Host == "relay.example"

\* A request: its route and method, request.args.get("prompt") (None when the
\* query has no prompt) and what request.get_json() meets in the body:
\*   "invalid"  get_json() raises (no JSON content type, or malformed JSON)
\*   "empty"    a falsy value ({}, [], null, 0)
\*   "list"     a non-empty list, which has no .get
\*   "dict"     a non-empty object; prompt is data.get("prompt")
\*   "none"     a request without a body
HttpRequest(route, method, arg, kind, p) ==
    [route |-> route, method |-> method, arg |-> arg, json |-> kind, prompt |-> p]

\* A thread that serves no request.
NoRequest == HttpRequest("", "", None, "none", None)

GenerateRequests ==
    {HttpRequest("/api/generate", "GET", p, "none", None) : p \in RawPrompts}
    \cup {HttpRequest("/api/generate", "POST", None, "dict", p) : p \in RawPrompts}
    \cup {HttpRequest("/api/generate", "POST", None, k, None) :
            k \in {"invalid", "empty", "list"}}

RefreshRequest == HttpRequest("/refresh-keys", "POST", None, "none", None)

\* jsonify(body), status
JsonResponse(body, status) ==
    [kind |-> "json", status |-> status, mimetype |-> Str("application/json"),
     body |-> body, download_name |-> None]

\* f"generated_{int(time.time())}.jpg" at clock value n
DownloadName(n) == "generated_" \o ToString(n) \o ".jpg"

\* send_file(BytesIO(image_data), mimetype=mime_type, as_attachment=False,
\* download_name=...); a body is kept in the shape of an image_data (see Bytes
\* below), mime is a Str, n the clock value when the response is made.
FileResponse(bytes, mime, n) ==
    [kind |-> "file", status |-> 200, mimetype |-> mime, body |-> bytes,
     download_name |-> Str(DownloadName(n))]

NoResponse ==
    [kind |-> "none", status |-> 0, mimetype |-> None, body |-> {},
     download_name |-> None]

VARIABLES
    request,            \* per thread: the HTTP request it serves
    http,               \* per thread: the HTTP response it returns
    last_failed,        \* history: the number of the last call that ended in a
                        \* failure and is over, 0 when there is none
    variant,            \* which source file this process runs
    current_anon_id,    \* app.py global
    current_client_id,  \* app.py global
    now,                \* the clock that time.time() reads, in seconds
    calls,              \* get_magic_image calls started so far
    callno,             \* per thread: the number of the call it runs
    after_failure,      \* per thread, history: last_failed when its call started
    uuid_draws,         \* per thread: uuid.uuid4() calls made so far by its call
    pc,                 \* per thread: where it stands in get_magic_image
    prompt,             \* per thread: the argument of the call
    attempt,            \* per thread: the loop variable
    anon_id,            \* per thread: anonymous_user_id of the payload being built
    client_id,          \* per thread: client_id of the payload being built
    stamp,              \* per thread: request_timestamp of that payload
    ret,                \* per thread: where generate_new_keys returns to
    sent,               \* per thread, history: for each post of this call, in
                        \* order, the prompt and the credential pair it carried
    outcomes,           \* per thread: what each post of this call did, in order
    sleeps,             \* per thread: time.sleep durations of this call, in order
    wake,               \* per thread: the clock value its time.sleep waits for
    due,                \* per thread: the clock value at which its post in
                        \* flight has waited timeout=30 seconds
    regenerated,        \* per thread: generate_new_keys calls completed by this call
    result              \* per thread: the returned tuple, <<>> while running

vars == <<request, http, last_failed, variant, current_anon_id,
          current_client_id, now, calls, callno, after_failure, uuid_draws,
          pc, prompt, attempt, anon_id, client_id, stamp, ret, sent,
          outcomes, sleeps, wake, due, regenerated, result>>

globals == <<current_anon_id, current_client_id>>


(***************************************************************************)
(* The branches of one attempt of get_magic_image.  An attempt ends in a   *)
(* Step: the call returns `value`, or it sleeps `sleep` seconds and         *)
(* continues the loop, after generate_new_keys() when `regenerate`, or the *)
(* exception of the post is caught by neither except clause and leaves the *)
(* function (`raises`).                                                    *)
(***************************************************************************)
Return(value) ==
    [retry |-> FALSE, regenerate |-> FALSE, sleep |-> 0, value |-> value,
     raises |-> FALSE]

Continue(regenerate, seconds) ==
    [retry |-> TRUE, regenerate |-> regenerate, sleep |-> seconds, value |-> <<>>,
     raises |-> FALSE]

Propagate ==
    [retry |-> FALSE, regenerate |-> FALSE, sleep |-> 0, value |-> <<>>,
     raises |-> TRUE]

\* image_data is bytes for an image and a dict for a failure.  Both are kept as
\* sets of pairs, so that the values of one variable all have one shape: a
\* dict is the set of its <<key, value>>, bytes b the set Bytes(b).
Bytes(b) == {<<"(bytes)", b>>}

\* Python truthiness of an image_data: not empty bytes, not an empty dict.
TruthyData(d) == d # {} /\ d # Bytes("")

\* The dicts returned as image_data on failure.
Error(message) == {<<"error", message>>}
ErrorDetails(message, details) == {<<"error", message>>, <<"details", details>>}

\* Mutant: the retry test off by one (attempt < max_retries).
AttemptsRemain_OffByOne(a) == a < max_retries

\* if attempt < max_retries - 1
AttemptsRemain(a) == a < max_retries - 1

\* the classes caught by `except requests.exceptions.Timeout`
TimeoutClasses == {"Timeout", "ConnectTimeout", "ReadTimeout"}

\* the classes caught by `except requests.exceptions.RequestException`
RequestExceptionClasses ==
    TimeoutClasses \cup {"RequestException", "ConnectionError", "HTTPError",
                         "SSLError", "ProxyError", "TooManyRedirects",
                         "ChunkedEncodingError", "ContentDecodingError",
                         "InvalidSchema", "InvalidURL", "InvalidProxyURL",
                         "InvalidHeader", "MissingSchema", "URLRequired",
                         "RetryError", "StreamConsumedError",
                         "UnrewindableBodyError", "InvalidJSONError",
                         "JSONDecodeError"}

\* content_type = response.headers.get('Content-Type', '')
ContentType(r) == HeaderGet(r.headers, "Content-Type", "")

\* Mutant: the content type is not looked at.
IsImageResponse_AnyBody(r) == TruthyBytes(r.content)

\* if response.content and 'image' in content_type
IsImageResponse(r) ==
    TruthyBytes(r.content) /\ Contains(ContentType(r), "image")

\* Mutant: the decoded text is returned instead of the bytes.
On200_DecodedBody(r) ==
    IF IsImageResponse(r)
    THEN Return(<<Bytes(r.text), Str(ContentType(r)), 200>>)
    ELSE Return(<<Error("API returned 200 OK but no image"), None, 500>>)

\* Mutant: a 200 without an image is retried like a rejection.
On200_RetryNoImage(r) ==
    IF IsImageResponse(r)
    THEN Return(<<Bytes(r.content), Str(ContentType(r)), 200>>)
    ELSE Continue(FALSE, sleep_after_422)

\* if response.status_code == 200: ...
On200(r) ==
    IF IsImageResponse(r)
    THEN Return(<<Bytes(r.content), Str(ContentType(r)), 200>>)
    ELSE Return(<<Error("API returned 200 OK but no image"), None, 500>>)

\* Mutant: app.py retries a 422 with the keys it has.
On422_KeepKeys(v, a) ==
    IF AttemptsRemain(a)
    THEN Continue(FALSE, sleep_after_422)
    ELSE Return(<<Error("Keys rejected after multiple attempts"), None, 422>>)

\* elif response.status_code == 422: ...  (app.py regenerates the global keys)
On422(v, a) ==
    IF AttemptsRemain(a)
    THEN Continue(v = "app", sleep_after_422)
    ELSE Return(<<Error("Keys rejected after multiple attempts"), None, 422>>)

\* Mutant: the details cut like the printed snippet, response.text[:200].
OnOtherStatus_ShortDetails(r) ==
    Return(<<ErrorDetails("API Error: " \o ToString(r.status_code),
                          Prefix(r.text, 200)),
             None, r.status_code>>)

\* else: ...
OnOtherStatus(r) ==
    Return(<<ErrorDetails("API Error: " \o ToString(r.status_code),
                          Prefix(r.text, details_limit)),
             None, r.status_code>>)

TimeoutMessage(v) ==
    IF v = "app" THEN "Request timeout after multiple attempts"
    ELSE "Request timeout"

\* Mutant: a timeout is retried whatever the attempt.
OnTimeout_AlwaysRetry(v, a) == Continue(FALSE, sleep_after_exception)

\* Mutant: a timeout makes app.py draw new keys, as a 422 does.
OnTimeout_Regenerate(v, a) ==
    IF AttemptsRemain(a)
    THEN Continue(v = "app", sleep_after_exception)
    ELSE Return(<<Error(TimeoutMessage(v)), None, 504>>)

\* Mutant: the last timeout is reported as a network error.
OnTimeout_As503(v, a) ==
    IF AttemptsRemain(a)
    THEN Continue(FALSE, sleep_after_exception)
    ELSE Return(<<Error(TimeoutMessage(v)), None, 503>>)

\* except requests.exceptions.Timeout: ...
OnTimeout(v, a) ==
    IF AttemptsRemain(a)
    THEN Continue(FALSE, sleep_after_exception)
    ELSE Return(<<Error(TimeoutMessage(v)), None, 504>>)

\* Mutant: a network error is not retried.
OnRequestException_NoRetry(a, r) ==
    Return(<<ErrorDetails("Network error", r.text), None, 503>>)

\* except requests.exceptions.RequestException as e: ...
OnRequestException(a, r) ==
    IF AttemptsRemain(a)
    THEN Continue(FALSE, sleep_after_exception)
    ELSE Return(<<ErrorDetails("Network error", r.text), None, 503>>)

\* Mutant: the except clauses in the other order; RequestException, the base
\* class of Timeout, then catches the timeouts too.
Handle_BroadExceptFirst(v, a, r) ==
    IF r.exc \in RequestExceptionClasses THEN OnRequestException(a, r)
    ELSE IF r.exc # "" THEN Propagate
    ELSE IF r.status_code = 200 THEN On200(r)
    ELSE IF r.status_code = 422 THEN On422(v, a)
    ELSE OnOtherStatus(r)

\* The body of the try statement after requests.post, and its except clauses;
\* an exception that is no RequestException is not caught.
Handle(v, a, r) ==
    IF r.exc \in TimeoutClasses THEN OnTimeout(v, a)
    ELSE IF r.exc \in RequestExceptionClasses THEN OnRequestException(a, r)
    ELSE IF r.exc # "" THEN Propagate
    ELSE IF r.status_code = 200 THEN On200(r)
    ELSE IF r.status_code = 422 THEN On422(v, a)
    ELSE OnOtherStatus(r)

FallbackMessage(v) ==
    IF v = "app" THEN "Failed to get image after all retries."
    ELSE "Failed after all retries"

\* The return after the loop.
Fallback(v) == <<Error(FallbackMessage(v)), None, 500>>

\* The next value of `for attempt in range(max_retries)`.
NextAttempt(a) == a + 1

\* Whether range(max_retries) yields the value a.
InRange(a) == a < max_retries

\* time.time() when the process starts, in whole seconds.
StartTime == 1793414060

\* str(time.time()) at clock value n: str() of a float without a fraction.
TimeStr(n) == ToString(n) \o ".0"

\* payload_data; p, anon and client are None or a Str, ts is a string.  The
\* prompt is the handler's prompt.strip(), code point for code point.
Payload(p, anon, ts, client) ==
    [prompt |-> p, output_format |-> "bytes", user_profile_id |-> "",
     anonymous_user_id |-> anon, request_timestamp |-> ts,
     user_is_subscribed |-> "false", client_id |-> client]

\* What the history keeps of a posted payload.
Sent(payload) ==
    [prompt |-> payload.prompt, anonymous_user_id |-> payload.anonymous_user_id,
     client_id |-> payload.client_id]

\* payload_data of thread t when its three reads are done.
payload_data(t) == Payload(prompt[t], anon_id[t], stamp[t], client_id[t])

(***************************************************************************)
(* handle_generation_request: the checks before get_magic_image and the    *)
(* response made from its result.  A Check is either the prompt handed to   *)
(* get_magic_image or the response returned without calling it.            *)
(***************************************************************************)
Accept(p) == [accept |-> TRUE, prompt |-> p, response |-> NoResponse]

Refuse(body, status) ==
    [accept |-> FALSE, prompt |-> None, response |-> JsonResponse(body, status)]

\* The body sent when a GET has no prompt.
MissingPrompt(v) ==
    IF v = "app"
    THEN {<<"error", "Missing 'prompt' parameter">>,
          <<"example", "/api/generate?prompt=a blue cat">>}
    ELSE {<<"error", "Missing 'prompt' parameter">>,
          <<"example", "https://" \o Host \o "/api/generate?prompt=a+blue+cat">>,
          <<"usage", "Add ?prompt=YOUR_PROMPT to the URL">>}

\* Mutant: only the unstripped prompt is tested, and it is passed on as it is.
CheckPrompt_NoStrip(p) ==
    IF ~Truthy(p)
    THEN Refuse(Error("Prompt cannot be empty"), 400)
    ELSE Accept(p)

\* prompt.strip() of a prompt that is a str.
StripOf(p) == Str(Strip(p[1]))

\* if not prompt or not prompt.strip(): return ..., 400
\* get_magic_image(prompt.strip())
CheckPrompt(p) ==
    IF ~Truthy(p) THEN Refuse(Error("Prompt cannot be empty"), 400)
    ELSE IF ~Truthy(StripOf(p)) THEN Refuse(Error("Prompt cannot be empty"), 400)
    ELSE Accept(StripOf(p))

\* The GET and POST branches; details is str(e) of the exception caught.
CheckRequest(v, req) ==
    IF req.method = "GET"
    THEN IF ~Truthy(req.arg)
         THEN Refuse(MissingPrompt(v), 400)
         ELSE CheckPrompt(req.arg)
    ELSE IF req.json = "invalid"
    THEN Refuse(ErrorDetails("Invalid JSON", "400 Bad Request"), 400)
    ELSE IF req.json = "empty"
    THEN Refuse(Error("Request body must be JSON"), 400)
    ELSE IF req.json = "list"
    THEN Refuse(ErrorDetails("Invalid JSON",
                             "'list' object has no attribute 'get'"), 400)
    ELSE CheckPrompt(req.prompt)

\* Mutant: every failure is answered with status 500.
ResponseFor_Always500(res, n) ==
    IF Truthy(res[2]) /\ TruthyData(res[1])
    THEN FileResponse(res[1], res[2], n)
    ELSE JsonResponse(res[1], 500)

\* if image_data and mime_type: return send_file(...), at clock value n
\* else: return jsonify(image_data), status_code
ResponseFor(res, n) ==
    IF Truthy(res[2]) /\ TruthyData(res[1])
    THEN FileResponse(res[1], res[2], n)
    ELSE JsonResponse(res[1], res[3])

\* What Flask answers when an exception leaves the handler (debug=False): in
\* index.py the errorhandler(500) makes a JSON body with str(e), e being the
\* InternalServerError Flask made of it; app.py has no handler for it and
\* Flask sends its own HTML page.
InternalErrorDescription ==
    "The server encountered an internal error and was unable to complete "
    \o "your request. Either the server is overloaded or there is an error "
    \o "in the application."

\* str(e)
InternalErrorText == "500 Internal Server Error: " \o InternalErrorDescription

\* The page Flask sends.
InternalErrorPage ==
    "<!doctype html>\n<html lang=en>\n<title>500 Internal Server Error</title>\n"
    \o "<h1>Internal Server Error</h1>\n<p>" \o InternalErrorDescription
    \o "</p>\n"

InternalError(v) ==
    IF v = "app"
    THEN [kind |-> "html", status |-> 500, mimetype |-> Str("text/html; charset=utf-8"),
          body |-> Bytes(InternalErrorPage), download_name |-> None]
    ELSE JsonResponse({<<"error", "Internal Server Error">>,
                       <<"message", InternalErrorText>>}, 500)

\* The body of the answer of /refresh-keys.
RefreshedBody(anon, client) ==
    {<<"success", "True">>, <<"message", "Keys refreshed successfully">>,
     <<"anon_id", Prefix(anon[1], 8) \o "...">>,
     <<"client_id", Prefix(client[1], 8) \o "...">>}

(***************************************************************************)
(* Init: the process after its module was loaded.  app.py has run          *)
(* generate_new_keys() once at import; index.py has no globals.  No thread *)
(* serves a request yet.                                                   *)
(***************************************************************************)
Init ==
    /\ request = [t \in Threads |-> NoRequest]
    /\ http = [t \in Threads |-> NoResponse]
    /\ last_failed = 0
    /\ variant \in Variants
    /\ current_anon_id = IF variant = "app" THEN Str(Uuid(0, 1)) ELSE None
    /\ current_client_id = IF variant = "app" THEN Str(Uuid(0, 2)) ELSE None
    /\ now = StartTime
    /\ calls = 0
    /\ callno = [t \in Threads |-> 0]
    /\ after_failure = [t \in Threads |-> 0]
    /\ uuid_draws = [t \in Threads |-> 0]
    /\ pc = [t \in Threads |-> "idle"]
    /\ prompt = [t \in Threads |-> None]
    /\ attempt = [t \in Threads |-> 0]
    /\ anon_id = [t \in Threads |-> None]
    /\ client_id = [t \in Threads |-> None]
    /\ stamp = [t \in Threads |-> ""]
    /\ ret = [t \in Threads |-> ""]
    /\ sent = [t \in Threads |-> <<>>]
    /\ outcomes = [t \in Threads |-> <<>>]
    /\ sleeps = [t \in Threads |-> <<>>]
    /\ wake = [t \in Threads |-> 0]
    /\ due = [t \in Threads |-> 0]
    /\ regenerated = [t \in Threads |-> 0]
    /\ result = [t \in Threads |-> <<>>]

\* Mutant: the attempt counter is not the call's own: after a failed call the
\* next one starts with one attempt used up.
StartCall_BudgetCarried(t, p) ==
    /\ pc[t] = "idle"
    /\ calls < MaxCalls
    /\ calls' = calls + 1
    /\ callno' = [callno EXCEPT ![t] = calls + 1]
    /\ after_failure' = [after_failure EXCEPT ![t] = last_failed]
    /\ pc' = [pc EXCEPT ![t] = "attempt"]
    /\ prompt' = [prompt EXCEPT ![t] = p]
    /\ attempt' = [attempt EXCEPT ![t] = IF last_failed # 0 THEN 1 ELSE 0]
    /\ UNCHANGED <<http, last_failed, variant, current_anon_id,
                    current_client_id, now, uuid_draws, anon_id, client_id,
                    stamp, ret, sent, outcomes, sleeps, wake, due, regenerated,
                    result>>

\* A request thread enters get_magic_image(p): for attempt in range(max_retries).
\* after_failure records the last failed call that was over at that moment.
StartCall(t, p) ==
    /\ pc[t] = "idle"
    /\ calls < MaxCalls
    /\ calls' = calls + 1
    /\ callno' = [callno EXCEPT ![t] = calls + 1]
    /\ after_failure' = [after_failure EXCEPT ![t] = last_failed]
    /\ pc' = [pc EXCEPT ![t] = "attempt"]
    /\ prompt' = [prompt EXCEPT ![t] = p]
    /\ attempt' = [attempt EXCEPT ![t] = 0]
    /\ UNCHANGED <<http, last_failed, variant, current_anon_id,
                    current_client_id, now, uuid_draws, anon_id, client_id,
                    stamp, ret, sent, outcomes, sleeps, wake, due, regenerated,
                    result>>

\* Mutant: index.py draws its keys once per call, before the loop.
GenerateKeys_OncePerCall(t) ==
    /\ variant = "index"
    /\ pc[t] = "attempt"
    /\ IF anon_id[t] = None
       THEN /\ anon_id' = [anon_id EXCEPT ![t] = Str(Uuid(callno[t], uuid_draws[t] + 1))]
            /\ client_id' = [client_id EXCEPT ![t] = Str(Uuid(callno[t], uuid_draws[t] + 2))]
            /\ uuid_draws' = [uuid_draws EXCEPT ![t] = @ + 2]
       ELSE UNCHANGED <<anon_id, client_id, uuid_draws>>
    /\ stamp' = [stamp EXCEPT ![t] = TimeStr(now)]
    /\ pc' = [pc EXCEPT ![t] = "post"]
    /\ UNCHANGED <<request, http, last_failed, variant, current_anon_id,
                    current_client_id, now, calls, callno, after_failure,
                    prompt, attempt, ret, sent, outcomes, sleeps, wake, due,
                    regenerated, result>>

\* index.py: anon_id, client_id = generate_keys(), and the payload with
\* str(time.time()).
GenerateKeys(t) ==
    /\ variant = "index"
    /\ pc[t] = "attempt"
    /\ anon_id' = [anon_id EXCEPT ![t] = Str(Uuid(callno[t], uuid_draws[t] + 1))]
    /\ client_id' = [client_id EXCEPT ![t] = Str(Uuid(callno[t], uuid_draws[t] + 2))]
    /\ uuid_draws' = [uuid_draws EXCEPT ![t] = @ + 2]
    /\ stamp' = [stamp EXCEPT ![t] = TimeStr(now)]
    /\ pc' = [pc EXCEPT ![t] = "post"]
    /\ UNCHANGED <<request, http, last_failed, variant, current_anon_id,
                    current_client_id, now, calls, callno, after_failure,
                    prompt, attempt, ret, sent, outcomes, sleeps, wake, due,
                    regenerated, result>>

\* Mutant: the test of the keys inverted, so that keys that are present are
\* replaced before every attempt.
CheckKeys_Inverted(t) ==
    /\ variant = "app"
    /\ pc[t] = "attempt"
    /\ IF Truthy(current_anon_id) \/ Truthy(current_client_id)
       THEN /\ pc' = [pc EXCEPT ![t] = "gen_anon"]
            /\ ret' = [ret EXCEPT ![t] = "payload_anon"]
       ELSE /\ pc' = [pc EXCEPT ![t] = "payload_anon"]
            /\ ret' = ret
    /\ UNCHANGED <<request, http, last_failed, variant, current_anon_id,
                    current_client_id, now, calls, callno, after_failure,
                    uuid_draws, prompt, attempt, anon_id, client_id, stamp,
                    sent, outcomes, sleeps, wake, due, regenerated, result>>

\* app.py: if not current_anon_id or not current_client_id: generate_new_keys()
CheckKeys(t) ==
    /\ variant = "app"
    /\ pc[t] = "attempt"
    /\ IF ~Truthy(current_anon_id) \/ ~Truthy(current_client_id)
       THEN /\ pc' = [pc EXCEPT ![t] = "gen_anon"]
            /\ ret' = [ret EXCEPT ![t] = "payload_anon"]
       ELSE /\ pc' = [pc EXCEPT ![t] = "payload_anon"]
            /\ ret' = ret
    /\ UNCHANGED <<request, http, last_failed, variant, current_anon_id,
                    current_client_id, now, calls, callno, after_failure,
                    uuid_draws, prompt, attempt, anon_id, client_id, stamp,
                    sent, outcomes, sleeps, wake, due, regenerated, result>>

\* app.py, generate_new_keys: current_anon_id = str(uuid.uuid4())
GenAnon(t) ==
    /\ pc[t] = "gen_anon"
    /\ current_anon_id' = Str(Uuid(callno[t], uuid_draws[t] + 1))
    /\ uuid_draws' = [uuid_draws EXCEPT ![t] = @ + 1]
    /\ pc' = [pc EXCEPT ![t] = "gen_client"]
    /\ UNCHANGED <<request, http, last_failed, variant, current_client_id,
                    now, calls, callno, after_failure, prompt, attempt,
                    anon_id, client_id, stamp, ret, sent, outcomes, sleeps,
                    wake, due, regenerated, result>>

\* app.py, generate_new_keys: current_client_id = str(uuid.uuid4()); return True
GenClient(t) ==
    /\ pc[t] = "gen_client"
    /\ current_client_id' = Str(Uuid(callno[t], uuid_draws[t] + 1))
    /\ uuid_draws' = [uuid_draws EXCEPT ![t] = @ + 1]
    /\ regenerated' = [regenerated EXCEPT ![t] = @ + 1]
    /\ pc' = [pc EXCEPT ![t] = ret[t]]
    /\ UNCHANGED <<request, http, last_failed, variant, current_anon_id, now,
                    calls, callno, after_failure, prompt, attempt, anon_id,
                    client_id, stamp, ret, sent, outcomes, sleeps, wake, due,
                    result>>

\* app.py, payload_data: "anonymous_user_id": current_anon_id
ReadAnon(t) ==
    /\ pc[t] = "payload_anon"
    /\ anon_id' = [anon_id EXCEPT ![t] = current_anon_id]
    /\ pc' = [pc EXCEPT ![t] = "payload_time"]
    /\ UNCHANGED <<request, http, last_failed, variant, current_anon_id,
                    current_client_id, now, calls, callno, after_failure,
                    uuid_draws, prompt, attempt, client_id, stamp, ret, sent,
                    outcomes, sleeps, wake, due, regenerated, result>>

\* app.py, payload_data: "request_timestamp": str(time.time())
ReadTime(t) ==
    /\ pc[t] = "payload_time"
    /\ stamp' = [stamp EXCEPT ![t] = TimeStr(now)]
    /\ pc' = [pc EXCEPT ![t] = "payload_client"]
    /\ UNCHANGED <<request, http, last_failed, variant, current_anon_id,
                    current_client_id, now, calls, callno, after_failure,
                    uuid_draws, prompt, attempt, anon_id, client_id, ret,
                    sent, outcomes, sleeps, wake, due, regenerated, result>>

\* app.py, payload_data: "client_id": current_client_id
ReadClient(t) ==
    /\ pc[t] = "payload_client"
    /\ client_id' = [client_id EXCEPT ![t] = current_client_id]
    /\ pc' = [pc EXCEPT ![t] = "post"]
    /\ UNCHANGED <<request, http, last_failed, variant, current_anon_id,
                    current_client_id, now, calls, callno, after_failure,
                    uuid_draws, prompt, attempt, anon_id, stamp, ret, sent,
                    outcomes, sleeps, wake, due, regenerated, result>>

\* requests.post(api_url, data=payload_data, ..., timeout=30) is called: the
\* payload goes to the upstream and the thread waits in the call for what
\* comes back, for 30 seconds before it gives up.
Post(t) ==
    /\ pc[t] = "post"
    /\ sent' = [sent EXCEPT ![t] = Append(@, Sent(payload_data(t)))]
    /\ due' = [due EXCEPT ![t] = now + ReadTimeout]
    /\ pc' = [pc EXCEPT ![t] = "in_flight"]
    /\ UNCHANGED <<request, http, last_failed, variant, current_anon_id,
                    current_client_id, now, calls, callno, after_failure,
                    uuid_draws, prompt, attempt, anon_id, client_id, stamp,
                    ret, outcomes, sleeps, wake, regenerated, result>>

\* The post of thread t does o, a timeout not before the 30 seconds are over,
\* and the attempt's branch for o is taken: the call goes on to
\* generate_new_keys() or straight to time.sleep, or it returns and the
\* handler makes the HTTP response from the returned tuple, or the exception
\* leaves get_magic_image and the handler and Flask answers for them; a post
\* that will not return keeps the thread in it.
Receive(t, o) ==
    /\ pc[t] = "in_flight"
    /\ o.exc \in TimeoutClasses => now >= due[t]
    /\ due' = [due EXCEPT ![t] = 0]
    /\ IF o = Hang
       THEN /\ pc' = [pc EXCEPT ![t] = "blocked"]
            /\ UNCHANGED <<outcomes, ret, result, http>>
       ELSE /\ outcomes' = [outcomes EXCEPT ![t] = Append(@, o)]
            /\ LET step == Handle(variant, attempt[t], o) IN
               IF step.retry
               THEN /\ pc' = [pc EXCEPT ![t] =
                                IF step.regenerate THEN "gen_anon" ELSE "sleep"]
                    /\ ret' = [ret EXCEPT ![t] = "sleep"]
                    /\ UNCHANGED <<result, http>>
               ELSE IF step.raises
               THEN /\ pc' = [pc EXCEPT ![t] = "responded"]
                    /\ http' = [http EXCEPT ![t] = InternalError(variant)]
                    /\ UNCHANGED <<ret, result>>
               ELSE /\ pc' = [pc EXCEPT ![t] = "responded"]
                    /\ result' = [result EXCEPT ![t] = step.value]
                    /\ http' = [http EXCEPT ![t] = ResponseFor(step.value, now)]
                    /\ ret' = ret
    /\ UNCHANGED <<request, last_failed, variant, current_anon_id,
                    current_client_id, now, calls, callno, after_failure,
                    uuid_draws, prompt, attempt, anon_id, client_id, stamp,
                    sent, sleeps, wake, regenerated>>

\* time.sleep(n) is called by the branch of the last outcome: the thread
\* sleeps until the clock shows n seconds more.
Sleep(t) ==
    /\ pc[t] = "sleep"
    /\ LET seconds == Handle(variant, attempt[t], outcomes[t][Len(outcomes[t])]).sleep
       IN  /\ sleeps' = [sleeps EXCEPT ![t] = Append(@, seconds)]
           /\ wake' = [wake EXCEPT ![t] = now + seconds]
    /\ pc' = [pc EXCEPT ![t] = "sleeping"]
    /\ UNCHANGED <<request, http, last_failed, variant, current_anon_id,
                    current_client_id, now, calls, callno, after_failure,
                    uuid_draws, prompt, attempt, anon_id, client_id, stamp,
                    ret, sent, outcomes, due, regenerated, result>>

\* time.sleep returns, not before its time; continue: the loop takes its next
\* value or ends; after the loop comes the last return, answered like any
\* other.  Nothing waits for the clock any more.
Wake(t) ==
    /\ pc[t] = "sleeping"
    /\ now >= wake[t]
    /\ wake' = [wake EXCEPT ![t] = 0]
    /\ attempt' = [attempt EXCEPT ![t] = NextAttempt(@)]
    /\ IF InRange(NextAttempt(attempt[t]))
       THEN /\ pc' = [pc EXCEPT ![t] = "attempt"]
            /\ UNCHANGED <<result, http>>
       ELSE /\ pc' = [pc EXCEPT ![t] = "responded"]
            /\ result' = [result EXCEPT ![t] = Fallback(variant)]
            /\ http' = [http EXCEPT ![t] = ResponseFor(Fallback(variant), now)]
    /\ UNCHANGED <<request, last_failed, variant, current_anon_id,
                    current_client_id, now, calls, callno, after_failure,
                    uuid_draws, prompt, anon_id, client_id, stamp, ret, sent,
                    outcomes, sleeps, due, regenerated>>

\* The clock values the clock can move to: the next second while a thread
\* sleeps that is not due to wake, and, when the upstream is `slow` to answer,
\* the moment at which a post in flight has waited its 30 seconds.
Moments(slow) ==
    {now + 1 : t \in {u \in Threads : pc[u] = "sleeping" /\ now < wake[u]}}
    \cup {due[t] : t \in {u \in Threads :
                              slow /\ pc[u] = "in_flight" /\ now < due[u]}}

\* The clock moves on while a thread waits for it, whatever the threads are
\* doing.
Tick(slow) ==
    /\ \E m \in Moments(slow) : now' = m
    /\ UNCHANGED <<request, http, last_failed, variant, current_anon_id,
                    current_client_id, calls, callno, after_failure,
                    uuid_draws, pc, prompt, attempt, anon_id, client_id,
                    stamp, ret, sent, outcomes, sleeps, wake, due, regenerated,
                    result>>

\* The response is sent and the handler's frame is gone with all its locals;
\* under app.run(threaded=True) the server started the thread for this request
\* and the thread ends with it.  last_failed records the call of
\* get_magic_image that returned a failure and is now over.
Exit(t) ==
    /\ pc[t] = "responded"
    /\ pc' = [pc EXCEPT ![t] = "exited"]
    /\ last_failed' = IF result[t] # <<>> /\ result[t][2] = None
                    THEN callno[t]
                    ELSE last_failed
    /\ request' = [request EXCEPT ![t] = NoRequest]
    /\ http' = [http EXCEPT ![t] = NoResponse]
    /\ callno' = [callno EXCEPT ![t] = 0]
    /\ after_failure' = [after_failure EXCEPT ![t] = 0]
    /\ uuid_draws' = [uuid_draws EXCEPT ![t] = 0]
    /\ prompt' = [prompt EXCEPT ![t] = None]
    /\ attempt' = [attempt EXCEPT ![t] = 0]
    /\ anon_id' = [anon_id EXCEPT ![t] = None]
    /\ client_id' = [client_id EXCEPT ![t] = None]
    /\ stamp' = [stamp EXCEPT ![t] = ""]
    /\ ret' = [ret EXCEPT ![t] = ""]
    /\ sent' = [sent EXCEPT ![t] = <<>>]
    /\ outcomes' = [outcomes EXCEPT ![t] = <<>>]
    /\ sleeps' = [sleeps EXCEPT ![t] = <<>>]
    /\ wake' = [wake EXCEPT ![t] = 0]
    /\ due' = [due EXCEPT ![t] = 0]
    /\ regenerated' = [regenerated EXCEPT ![t] = 0]
    /\ result' = [result EXCEPT ![t] = <<>>]
    /\ UNCHANGED <<variant, current_anon_id, current_client_id, now, calls>>

\* A thread takes a request to /api/generate: handle_generation_request checks
\* it and either answers at once or enters get_magic_image.
HandleGeneration(t, req) ==
    /\ pc[t] = "idle"
    /\ request' = [request EXCEPT ![t] = req]
    /\ LET check == CheckRequest(variant, req) IN
       IF check.accept
       THEN StartCall(t, check.prompt)
       ELSE /\ http' = [http EXCEPT ![t] = check.response]
            /\ pc' = [pc EXCEPT ![t] = "responded"]
            /\ UNCHANGED <<last_failed, variant, current_anon_id,
                        current_client_id, now, calls, callno, after_failure,
                        uuid_draws, prompt, attempt, anon_id, client_id,
                        stamp, ret, sent, outcomes, sleeps, wake, due, regenerated,
                        result>>

\* app.py: a thread takes a POST to /refresh-keys and enters
\* generate_new_keys().
RefreshKeys(t) ==
    /\ variant = "app"
    /\ pc[t] = "idle"
    /\ calls < MaxCalls
    /\ calls' = calls + 1
    /\ callno' = [callno EXCEPT ![t] = calls + 1]
    /\ request' = [request EXCEPT ![t] = RefreshRequest]
    /\ pc' = [pc EXCEPT ![t] = "gen_anon"]
    /\ ret' = [ret EXCEPT ![t] = "refreshed"]
    /\ UNCHANGED <<http, last_failed, variant, current_anon_id,
                    current_client_id, now, after_failure, uuid_draws, prompt,
                    attempt, anon_id, client_id, stamp, sent, outcomes,
                    sleeps, wake, due, regenerated, result>>

\* refresh_keys, the body of its answer: "anon_id": current_anon_id[:8] + "..."
RefreshReadAnon(t) ==
    /\ pc[t] = "refreshed"
    /\ anon_id' = [anon_id EXCEPT ![t] = current_anon_id]
    /\ pc' = [pc EXCEPT ![t] = "refreshed_anon"]
    /\ UNCHANGED <<request, http, last_failed, variant, current_anon_id,
                    current_client_id, now, calls, callno, after_failure,
                    uuid_draws, prompt, attempt, client_id, stamp, ret, sent,
                    outcomes, sleeps, wake, due, regenerated, result>>

\* refresh_keys: "client_id": current_client_id[:8] + "...", and the answer.
RefreshRespond(t) ==
    /\ pc[t] = "refreshed_anon"
    /\ client_id' = [client_id EXCEPT ![t] = current_client_id]
    /\ http' = [http EXCEPT ![t] =
                  JsonResponse(RefreshedBody(anon_id[t], current_client_id), 200)]
    /\ pc' = [pc EXCEPT ![t] = "responded"]
    /\ UNCHANGED <<request, last_failed, variant, current_anon_id,
                    current_client_id, now, calls, callno, after_failure,
                    uuid_draws, prompt, attempt, anon_id, stamp, ret, sent,
                    outcomes, sleeps, wake, due, regenerated, result>>

\* app.py: the steps of thread t inside get_magic_image, generate_new_keys or
\* refresh_keys.
AppStep(t) ==
    \/ CheckKeys(t)
    \/ GenAnon(t)
    \/ GenClient(t)
    \/ ReadAnon(t)
    \/ ReadTime(t)
    \/ ReadClient(t)
    \/ RefreshReadAnon(t)
    \/ RefreshRespond(t)

\* The same for either variant, up to the post and after what came back.
Step(t) ==
    \/ GenerateKeys(t)
    \/ AppStep(t)
    \/ Post(t)
    \/ Sleep(t)
    \/ Wake(t)

\* The steps of a running call of thread t.
Run(t) ==
    \/ Step(t)
    \/ \E o \in PostOutcomes : Receive(t, o)

\* A request arrives: a thread of `generators` takes one of `requests` to
\* /api/generate, or a thread of `refreshers` a POST to /refresh-keys.
Arrive(generators, refreshers, requests) ==
    \/ \E t \in generators, req \in requests : HandleGeneration(t, req)
    \/ \E t \in refreshers : RefreshKeys(t)

\* The threads go on with what they serve, the upstream does one of
\* `upstream`, at once or, when it is `slow`, after a while, and the clock moves
\* on while a thread waits for it.  A thread takes its steps whatever the other
\* threads are doing: nothing in the code makes a request wait for another.
Work(upstream, slow) ==
    \/ \E t \in Threads : Step(t)
    \/ \E t \in Threads, o \in upstream : Receive(t, o)
    \/ \E t \in Threads : Exit(t)
    \/ Tick(slow)

\* The steps of the process with these threads, requests and outcomes.
Serve(generators, refreshers, requests, upstream, slow) ==
    \/ Arrive(generators, refreshers, requests)
    \/ Work(upstream, slow)

\* No request is being served.
Quiet == \A t \in Threads : pc[t] \in {"idle", "exited"}

\* What the runs with concurrent calls draw from: two outcomes that make a
\* call try again, with new keys and without, both answers that come at once,
\* and one request.
ConcurrentOutcomes ==
    { Response(422, <<<<"Content-Type", "application/json">>>>,
               "{\"detail\":\"bad ids\"}", "{\"detail\":\"bad ids\"}"),
      Raised("ConnectionError", "Connection refused") }

ConcurrentRequests ==
    {HttpRequest("/api/generate", "GET", Str(Text("test")), "none", None)}

\* The thread of a run that serves a single request, and the one that serves a
\* /refresh-keys beside it.
CallThread == {"t1"}

RefreshThread == {"t2"}

\* What the runs with one call after the other draw from: a 422, a timeout
\* and an image.
SequentialOutcomes ==
    { Response(422, <<<<"Content-Type", "application/json">>>>,
               "{\"detail\":\"bad ids\"}", "{\"detail\":\"bad ids\"}"),
      Raised("ReadTimeout", "Read timed out. (read timeout=30)"),
      Response(200, <<<<"Content-Type", "image/png">>>>, "PNG-bytes-1", "?PNG-text-1") }

(***************************************************************************)
(* Spec: the process serving two requests by concurrent threads, in either *)
(* variant; each of them is a request to /api/generate or /refresh-keys,   *)
(* with the small inputs above and an upstream that answers every post at  *)
(* once, so that the clock moves only while a thread sleeps.               *)
(* CallSpec: the process serving one request, which is any of the modelled *)
(* requests, with an upstream that does any of the modelled outcomes.      *)
(* RefreshSpec: the process serving one request to /api/generate, with an  *)
(* upstream that does any of the modelled outcomes, and a request to       *)
(* /refresh-keys beside it.                                                *)
(* SequentialSpec: the process serving two requests, the second of which   *)
(* arrives when the first has been answered.                               *)
(* In these three the clock moves while a thread sleeps or waits in a      *)
(* post: an answer of the upstream comes at once or when the clock has     *)
(* moved on, a timeout when the post has waited its 30 seconds.            *)
(***************************************************************************)
Next == Serve(Threads, Threads, ConcurrentRequests, ConcurrentOutcomes, FALSE)

Spec == Init /\ [][Next]_vars

CallNext == Serve(CallThread, CallThread, GenerateRequests, PostOutcomes, TRUE)

CallSpec == Init /\ [][CallNext]_vars

RefreshNext ==
    Serve(CallThread, RefreshThread, ConcurrentRequests, PostOutcomes, TRUE)

RefreshSpec == Init /\ [][RefreshNext]_vars

SequentialNext ==
    \/ Quiet /\ Arrive(Threads, Threads, ConcurrentRequests)
    \/ Work(SequentialOutcomes, TRUE)

SequentialSpec == Init /\ [][SequentialNext]_vars

\* Every thread that can take a step of its call eventually takes one: the
\* interpreter schedules every thread, and the clock goes on while a thread
\* waits for it.  A post that does not return is a step too (to "blocked"), after
\* which the thread has no step left.
FairCallSpec ==
    /\ CallSpec
    /\ \A t \in Threads : WF_vars(Run(t))
    /\ WF_vars(Tick(TRUE))

(***************************************************************************)
(* Vocabulary of the properties: what the upstream did on an attempt, and  *)
(* what the call returned, read off the raw response and the raw tuple.    *)
(***************************************************************************)
\* get_magic_image was entered and has returned a result, from which the
\* handler has made its response.
Returned(t) == pc[t] = "responded" /\ result[t] # <<>>

\* get_magic_image was entered and an exception has left it.
Escaped(t) == pc[t] = "responded" /\ prompt[t] # None /\ result[t] = <<>>

\* Thread t is inside get_magic_image.
InCall(t) ==
    /\ request[t].route = "/api/generate"
    /\ pc[t] \notin {"idle", "responded", "exited"}

Attempts(t) == DOMAIN outcomes[t]

LastOutcome(t) == outcomes[t][Len(outcomes[t])]

\* HTTP 200, a non-empty body and a content type (the values of the headers
\* named Content-Type in any case, joined by ", ") containing "image".
ImageSuccess(o) ==
    /\ o.exc = ""
    /\ o.status_code = 200
    /\ o.content # ""
    /\ Contains(HeaderGet(o.headers, "content-type", ""), "image")

\* HTTP 200 without an image.
NoImage200(o) == o.exc = "" /\ o.status_code = 200 /\ ~ImageSuccess(o)

Rejected422(o) == o.exc = "" /\ o.status_code = 422

OtherStatus(o) == o.exc = "" /\ o.status_code \notin {200, 422}

TimedOut(o) == o.exc \in {"Timeout", "ConnectTimeout", "ReadTimeout"}

\* A failure of the transport other than a timeout: an exception of requests.
NetworkFailure(o) ==
    o.exc \in {"RequestException", "ConnectionError", "HTTPError", "SSLError",
               "ProxyError", "TooManyRedirects", "ChunkedEncodingError",
               "ContentDecodingError", "InvalidSchema", "InvalidURL",
               "InvalidProxyURL", "InvalidHeader", "MissingSchema",
               "URLRequired", "RetryError", "StreamConsumedError",
               "UnrewindableBodyError", "InvalidJSONError", "JSONDecodeError"}

\* The returned tuple is an image: a body with a content type.
ImageResult(r) == Len(r) = 3 /\ r[2] # None

\* The returned tuple is the image `bytes` of type `ctype`, status 200.
ImageWith(r, bytes, ctype) ==
    Len(r) = 3 /\ r[2] = Str(ctype) /\ r[3] = 200 /\ r[1] = Bytes(bytes)

\* The returned tuple is a failure: a dict with an "error", no content type.
FailureResult(r) ==
    Len(r) = 3 /\ r[2] = None /\ \E e \in r[1] : e[1] = "error"

\* The returned tuple is the failure `dict` with HTTP status `status`.
FailureWith(r, dict, status) ==
    Len(r) = 3 /\ r[2] = None /\ r[3] = status /\ r[1] = dict

\* The credential pair a payload carries.
Credentials(payload) == <<payload.anonymous_user_id, payload.client_id>>

(***************************************************************************)
(* C1: a call returns an image only when its last attempt got HTTP 200     *)
(* with a non-empty body and a content type containing "image"; the status *)
(* returned with it is 200.                                                *)
(***************************************************************************)
C1_ImageOnlyFromImageSuccess ==
    \A t \in Threads :
        (Returned(t) /\ ImageResult(result[t])) =>
            /\ Len(outcomes[t]) >= 1
            /\ ImageSuccess(LastOutcome(t))
            /\ result[t][3] = 200

\* An image returned on the second attempt, after a retry; the response had
\* two content type headers, of which the second one names an image.
C1_Witness ==
    \E t \in Threads :
        /\ Returned(t)
        /\ Len(outcomes[t]) = 2
        /\ ImageWith(result[t], "PNG-bytes-4", "text/plain, image/png")

(***************************************************************************)
(* C2: one call posts to the upstream at most 3 times, and at least once   *)
(* before it returns.                                                      *)
(***************************************************************************)
C2_OneToThreeInvocations ==
    \A t \in Threads :
        /\ Len(sent[t]) <= 3
        /\ Returned(t) => Len(sent[t]) >= 1

\* A call that returned after three posts.
C2_Witness ==
    \E t \in Threads : Returned(t) /\ Len(sent[t]) = 3

(***************************************************************************)
(* C3: every call that was started returns, and returns exactly one        *)
(* result, an image or a failure, which does not change until the thread   *)
(* has sent its response; no outcome of a post leaves the call without a   *)
(* result.                                                                 *)
(***************************************************************************)
C3_TerminatesWithOneResult ==
    /\ \A t \in Threads : InCall(t) ~> Returned(t)
    /\ [](\A t \in Threads :
            /\ Returned(t) => ImageResult(result[t]) \/ FailureResult(result[t])
            /\ ~Escaped(t))
    /\ [][\A t \in Threads :
            Returned(t) => result'[t] = result[t] \/ pc'[t] = "exited"]_vars

(***************************************************************************)
(* C4: when the first attempt gets an image, the call returns exactly that *)
(* body and that content type, after one post, no sleep and no             *)
(* generate_new_keys().                                                    *)
(***************************************************************************)
C4_ImageOnFirstAttempt ==
    \A t \in Threads :
        (Len(outcomes[t]) >= 1 /\ ImageSuccess(outcomes[t][1])) =>
            /\ Returned(t)
            /\ ImageWith(result[t], outcomes[t][1].content,
                         HeaderGet(outcomes[t][1].headers, "Content-Type", ""))
            /\ Len(sent[t]) = 1
            /\ sleeps[t] = <<>>
            /\ regenerated[t] = 0

\* The WEBP returned from a first attempt; its header was named
\* "content-type".
C4_Witness ==
    \E t \in Threads :
        /\ Returned(t)
        /\ Len(outcomes[t]) = 1
        /\ ImageSuccess(outcomes[t][1])
        /\ ImageWith(result[t], "WEBP-bytes-3", "image/webp")

(***************************************************************************)
(* C5: after 422, 422 and then an image the call returns the image; in     *)
(* index.py the three posts carried three pairwise different credential    *)
(* pairs, in app.py the call ran generate_new_keys() exactly twice.        *)
(***************************************************************************)
TwoRejectionsThenImage(t) ==
    /\ Len(outcomes[t]) = 3
    /\ Rejected422(outcomes[t][1])
    /\ Rejected422(outcomes[t][2])
    /\ ImageSuccess(outcomes[t][3])

C5_TwoRejectionsThenImage ==
    \A t \in Threads :
        TwoRejectionsThenImage(t) =>
            /\ Returned(t)
            /\ ImageWith(result[t], outcomes[t][3].content,
                         HeaderGet(outcomes[t][3].headers, "Content-Type", ""))
            /\ Len(sent[t]) = 3
            /\ variant = "index" =>
                 \A i, j \in 1..3 :
                     i # j => Credentials(sent[t][i]) # Credentials(sent[t][j])
            /\ variant = "app" => regenerated[t] = 2

\* index.py returning the image of the third attempt.
C5_Witness ==
    \E t \in Threads :
        variant = "index" /\ TwoRejectionsThenImage(t) /\ ImageResult(result[t])

(***************************************************************************)
(* C6: a call whose attempts all got 422 returns after exactly 3 posts,    *)
(* with status 422 and "Keys rejected after multiple attempts"; three 422  *)
(* in a row end the call.                                                  *)
(***************************************************************************)
AllRejected(t) == \A i \in Attempts(t) : Rejected422(outcomes[t][i])

C6_AllRejected ==
    \A t \in Threads :
        /\ (Returned(t) /\ AllRejected(t)) =>
              /\ Len(sent[t]) = 3
              /\ FailureWith(result[t],
                             {<<"error", "Keys rejected after multiple attempts">>},
                             422)
        /\ (Len(outcomes[t]) = 3 /\ AllRejected(t)) => Returned(t)

\* Three 422 in a row.
C6_Witness ==
    \E t \in Threads :
        Returned(t) /\ Len(outcomes[t]) = 3 /\ AllRejected(t)

(***************************************************************************)
(* C7, as claimed: a call whose attempts all timed out returns after       *)
(* exactly 3 posts with status 504 and the message "Request timeout",      *)
(* having slept 2 seconds before each of the two retries and not after the *)
(* third attempt.                                                          *)
(***************************************************************************)
AllTimedOut(t) == \A i \in Attempts(t) : TimedOut(outcomes[t][i])

C7_AllTimeouts_Claimed ==
    \A t \in Threads :
        (Returned(t) /\ AllTimedOut(t)) =>
            /\ Len(sent[t]) = 3
            /\ FailureWith(result[t], {<<"error", "Request timeout">>}, 504)
            /\ sleeps[t] = <<2, 2>>

(***************************************************************************)
(* C7, amended: as claimed, but the message is "Request timeout" in        *)
(* index.py and "Request timeout after multiple attempts" in app.py.       *)
(***************************************************************************)
C7_AllTimeouts ==
    \A t \in Threads :
        /\ (Returned(t) /\ AllTimedOut(t)) =>
              /\ Len(sent[t]) = 3
              /\ FailureWith(result[t],
                             {<<"error",
                                IF variant = "app"
                                THEN "Request timeout after multiple attempts"
                                ELSE "Request timeout">>},
                             504)
              /\ sleeps[t] = <<2, 2>>
        /\ (Len(outcomes[t]) = 3 /\ AllTimedOut(t)) => Returned(t)

\* Three timeouts in a row in app.py, each after the 30 seconds of its post:
\* the third post was stamped 64 seconds after the first, and the call
\* returns 94 seconds after it, having slept twice.
C7_Witness ==
    \E t \in Threads :
        /\ variant = "app"
        /\ Returned(t)
        /\ Len(outcomes[t]) = 3
        /\ AllTimedOut(t)
        /\ sleeps[t] = <<2, 2>>
        /\ stamp[t] = TimeStr(StartTime + 2 * ReadTimeout + 4)
        /\ now = StartTime + 3 * ReadTimeout + 4

(***************************************************************************)
(* C8: a transport failure other than a timeout on the first or second     *)
(* attempt does not end the call: the call sleeps 2 seconds and posts      *)
(* again; on the third attempt the call returns status 503, "Network       *)
(* error" and str(e) as details, without sleeping.                         *)
(***************************************************************************)
C8_NetworkFailure ==
    \A t \in Threads : \A i \in Attempts(t) :
        NetworkFailure(outcomes[t][i]) =>
            IF i < 3
            THEN /\ ~(Returned(t) /\ Len(outcomes[t]) = i)
                 /\ Len(sleeps[t]) >= i => sleeps[t][i] = 2
                 /\ Len(sent[t]) > i => Len(sleeps[t]) >= i
            ELSE /\ Returned(t)
                 /\ FailureWith(result[t],
                                {<<"error", "Network error">>,
                                 <<"details", outcomes[t][i].text>>},
                                503)
                 /\ Len(sleeps[t]) = 2

\* A network failure on the first attempt, retried, and one on the third: a
\* redirection to a URL no adapter serves.
C8_Witness ==
    \E t \in Threads :
        /\ Returned(t)
        /\ Len(outcomes[t]) = 3
        /\ NetworkFailure(outcomes[t][1])
        /\ outcomes[t][3].exc = "InvalidSchema"
        /\ sleeps[t][1] = 2
        /\ result[t][3] = 503

(***************************************************************************)
(* C9: an attempt that gets an HTTP status other than 200 and 422 ends the *)
(* call at once: it is the last post, no sleep follows it, and the call    *)
(* returns that status, "API Error: <status>" and the first 500 characters *)
(* of the body as details.                                                 *)
(***************************************************************************)
First500(s) == IF Len(s) <= 500 THEN s ELSE SubSeq(s, 1, 500)

C9_OtherStatusIsTerminal ==
    \A t \in Threads : \A i \in Attempts(t) :
        OtherStatus(outcomes[t][i]) =>
            /\ Returned(t)
            /\ Len(outcomes[t]) = i
            /\ Len(sent[t]) = i
            /\ Len(sleeps[t]) = i - 1
            /\ FailureWith(result[t],
                           {<<"error", "API Error: "
                                       \o ToString(outcomes[t][i].status_code)>>,
                            <<"details", First500(outcomes[t][i].text)>>},
                           outcomes[t][i].status_code)

\* A 500 with a body of more than 500 characters on the second attempt.
C9_Witness ==
    \E t \in Threads :
        /\ Returned(t)
        /\ Len(outcomes[t]) = 2
        /\ outcomes[t][2].status_code = 500
        /\ Len(outcomes[t][2].text) > 500

(***************************************************************************)
(* C10: an attempt that gets HTTP 200 with an empty body or a content type *)
(* without "image" ends the call at once with status 500 and "API returned *)
(* 200 OK but no image": it is the last post and no sleep follows it, so   *)
(* on the first attempt the upstream was posted to exactly once.           *)
(***************************************************************************)
C10_NoImageIsTerminal ==
    \A t \in Threads : \A i \in Attempts(t) :
        NoImage200(outcomes[t][i]) =>
            /\ Returned(t)
            /\ Len(outcomes[t]) = i
            /\ Len(sent[t]) = i
            /\ Len(sleeps[t]) = i - 1
            /\ FailureWith(result[t],
                           {<<"error", "API returned 200 OK but no image">>},
                           500)

\* text/plain with a body on the first attempt: one post.
C10_Witness ==
    \E t \in Threads :
        /\ Returned(t)
        /\ Len(sent[t]) = 1
        /\ outcomes[t][1].status_code = 200
        /\ outcomes[t][1].content = "hello"
        /\ FailureResult(result[t])

\* The prompt a request to /api/generate gives: the query parameter of a GET,
\* the "prompt" member of the JSON object of a POST, None when there is none.
GivenPrompt(req) ==
    IF req.method = "GET" THEN req.arg
    ELSE IF req.json = "dict" THEN req.prompt
    ELSE None

\* The code points of the whitespace characters of a Python str: the ASCII
\* controls U+0009 to U+000D and U+001C to U+001F, the space, U+0085, U+00A0,
\* U+1680, U+2000 to U+200A, U+2028, U+2029, U+202F, U+205F and U+3000.
WhitespaceCodes ==
    (9..13) \cup (28..32) \cup {133, 160, 5760} \cup (8192..8202)
    \cup {8232, 8233, 8239, 8287, 12288}

\* Every character of s is whitespace (the empty string included).
WhitespaceOnly(s) == \A i \in 1..Len(s) : s[i] \in WhitespaceCodes

\* The request's prompt is missing, empty or whitespace-only.
NoUsablePrompt(req) ==
    GivenPrompt(req) = None \/ WhitespaceOnly(GivenPrompt(req)[1])

\* s is not empty and neither starts nor ends with whitespace.
NonEmptyStripped(s) ==
    /\ Len(s) > 0
    /\ s[1] \notin WhitespaceCodes
    /\ s[Len(s)] \notin WhitespaceCodes

(***************************************************************************)
(* C11: a GET or POST to /api/generate whose prompt is missing, empty or   *)
(* whitespace-only is answered with HTTP 400 without any upstream post;    *)
(* get_magic_image only ever runs with a non-empty prompt that has no      *)
(* whitespace at its ends, and that is the prompt it posts.                *)
(***************************************************************************)
C11_BadPromptIs400 ==
    \A t \in Threads :
        /\ (request[t].route = "/api/generate" /\ NoUsablePrompt(request[t])) =>
              /\ pc[t] = "responded"
              /\ http[t].kind = "json"
              /\ http[t].status = 400
              /\ prompt[t] = None
              /\ sent[t] = <<>>
              /\ outcomes[t] = <<>>
        /\ (request[t].route = "/api/generate" /\ prompt[t] # None) =>
              /\ NonEmptyStripped(prompt[t][1])
              /\ ~NoUsablePrompt(request[t])
              /\ \A i \in DOMAIN sent[t] : sent[t][i].prompt = prompt[t]

\* A GET whose prompt is a vertical tab between two spaces has been answered
\* with 400.
C11_Witness ==
    \E t \in Threads :
        /\ request[t].method = "GET"
        /\ request[t].arg = Str(<<32, 11, 32>>)
        /\ pc[t] = "responded"
        /\ http[t].status = 400
        /\ sent[t] = <<>>

\* The handler has made its response from the result of get_magic_image.
Answered(t) == Returned(t) /\ http[t] # NoResponse

(***************************************************************************)
(* C15: the handler answers with a binary body exactly when the result is  *)
(* an image, and then the body is the image and its type the upstream      *)
(* Content-Type; for a failure it answers with the failure's JSON object   *)
(* and the failure's status code as HTTP status.                           *)
(***************************************************************************)
C15_ResultToResponse ==
    \A t \in Threads :
        Answered(t) =>
            /\ http[t].kind = "file" <=> ImageResult(result[t])
            /\ ImageResult(result[t]) =>
                  /\ http[t].body = result[t][1]
                  /\ http[t].body = Bytes(LastOutcome(t).content)
                  /\ http[t].mimetype = Str(HeaderGet(LastOutcome(t).headers,
                                                      "Content-Type", ""))
            /\ FailureResult(result[t]) =>
                  /\ http[t].kind = "json"
                  /\ http[t].body = result[t][1]
                  /\ http[t].status = result[t][3]

\* The failure of an upstream 503 has been answered as JSON with status 503.
C15_Witness ==
    \E t \in Threads :
        /\ Answered(t)
        /\ FailureResult(result[t])
        /\ result[t][3] = 503
        /\ http[t].kind = "json"
        /\ http[t].status = 503

\* The messages of the return placed after the loop, in index.py and app.py.
FallbackMessages ==
    {"Failed after all retries", "Failed to get image after all retries."}

(***************************************************************************)
(* C16: the return after the attempt loop is never taken: no call returns  *)
(* the fallback failure, a call never waits after its third attempt, and a *)
(* call whose third post is over has left from a branch of that attempt.   *)
(***************************************************************************)
C16_FallbackUnreachable ==
    \A t \in Threads :
        /\ (Returned(t) /\ FailureResult(result[t])) =>
              \A e \in result[t][1] : e[2] \notin FallbackMessages
        /\ Returned(t) => Len(outcomes[t]) = Len(sent[t]) /\ Len(sleeps[t]) < Len(sent[t])
        /\ pc[t] \in {"sleep", "sleeping"} => Len(outcomes[t]) < max_retries
        /\ Len(outcomes[t]) = max_retries => Returned(t) \/ Escaped(t)

\* Three retried kinds in a row: the third attempt, a network failure, ended the
\* call in its own branch with status 503.
C16_Witness ==
    \E t \in Threads :
        /\ Returned(t)
        /\ Len(outcomes[t]) = 3
        /\ Rejected422(outcomes[t][1])
        /\ TimedOut(outcomes[t][2])
        /\ NetworkFailure(outcomes[t][3])
        /\ FailureResult(result[t])
        /\ result[t][3] = 503

RECURSIVE Total(_)
Total(seq) == IF seq = <<>> THEN 0 ELSE seq[1] + Total(SubSeq(seq, 2, Len(seq)))

(***************************************************************************)
(* C18: a call waits only between two of its attempts: the i-th wait       *)
(* follows the i-th post and comes before the next one, it lasts 1 after a *)
(* 422 and 2 after a timeout or network failure, a returned call has       *)
(* waited once less than it posted, and its waits add up to at most 4.     *)
(***************************************************************************)
C18_WaitsBetweenAttempts ==
    \A t \in Threads :
        /\ Len(sleeps[t]) <= Len(outcomes[t])
        /\ Len(sent[t]) >= 1 => Len(sleeps[t]) >= Len(sent[t]) - 1
        /\ Returned(t) => Len(sleeps[t]) = Len(sent[t]) - 1
        /\ \A i \in DOMAIN sleeps[t] :
              /\ Rejected422(outcomes[t][i]) \/ TimedOut(outcomes[t][i])
                    \/ NetworkFailure(outcomes[t][i])
              /\ sleeps[t][i] = IF Rejected422(outcomes[t][i]) THEN 1 ELSE 2
        /\ Total(sleeps[t]) <= 4

\* A call that waited 2 after a timeout and 1 after a 422, then returned.
C18_Witness ==
    \E t \in Threads :
        /\ Returned(t)
        /\ Len(sent[t]) = 3
        /\ TimedOut(outcomes[t][1])
        /\ Rejected422(outcomes[t][2])
        /\ sleeps[t] = <<2, 1>>

\* An outcome that is tried again while attempts remain.
Retryable(o) == Rejected422(o) \/ TimedOut(o) \/ NetworkFailure(o)

(***************************************************************************)
(* C19: after three retryable outcomes of any kinds the call has returned  *)
(* a failure whose status depends on the third outcome alone: 422 for a    *)
(* 422, 504 for a timeout, 503 for a network failure.                      *)
(***************************************************************************)
C19_LastOutcomeDecides ==
    \A t \in Threads :
        (/\ Len(outcomes[t]) = 3
         /\ \A i \in 1..3 : Retryable(outcomes[t][i])) =>
            /\ Returned(t)
            /\ Len(sent[t]) = 3
            /\ FailureResult(result[t])
            /\ result[t][3] = IF Rejected422(outcomes[t][3]) THEN 422
                              ELSE IF TimedOut(outcomes[t][3]) THEN 504
                              ELSE 503

\* A network failure, a 422 and then a timeout: the call ends with 504.
C19_Witness ==
    \E t \in Threads :
        /\ Returned(t)
        /\ Len(outcomes[t]) = 3
        /\ NetworkFailure(outcomes[t][1])
        /\ Rejected422(outcomes[t][2])
        /\ TimedOut(outcomes[t][3])
        /\ result[t][3] = 504

\* The attempts of t's call that got a 422 while attempts remained.
Retried422(t) ==
    {i \in DOMAIN outcomes[t] : i < max_retries /\ Rejected422(outcomes[t][i])}

\* Every uuid call number c can have drawn: two for each of its attempts.
DrawsOf(c) == {Str(Uuid(c, n)) : n \in 1..(2 * max_retries)}

\* Thread t's call has returned "Keys rejected after multiple attempts".
KeysRejected(t) ==
    Returned(t) /\ FailureResult(result[t]) /\ result[t][3] = 422

(***************************************************************************)
(* C17 as claimed, its last part: in app.py, after a call has returned the *)
(* failure 422 the globals hold the pair of its last post, the one the     *)
(* upstream rejected last.                                                 *)
(***************************************************************************)
C17_CachedPairIsLastRejected_Claimed ==
    variant = "app" =>
        \A t \in Threads :
            KeysRejected(t) =>
                Credentials(sent[t][Len(sent[t])])
                    = <<current_anon_id, current_client_id>>

\* What C17 says of a state of app.py: a returned call has replaced the pair once
\* for each 422 it retried and never otherwise; after "Keys rejected" a global
\* that still holds a value this call drew holds the value of the call's last
\* post, and both do when no other request was served.
C17_State ==
    variant = "app" =>
        \A t \in Threads :
            Returned(t) =>
                /\ regenerated[t] = Cardinality(Retried422(t))
                /\ uuid_draws[t] = 2 * Cardinality(Retried422(t))
                /\ KeysRejected(t) =>
                      /\ Rejected422(LastOutcome(t))
                      /\ Len(sent[t]) = max_retries
                      /\ current_anon_id \in DrawsOf(callno[t]) =>
                            current_anon_id = sent[t][max_retries].anonymous_user_id
                      /\ current_client_id \in DrawsOf(callno[t]) =>
                            current_client_id = sent[t][max_retries].client_id
                      /\ calls = 1 =>
                            Credentials(sent[t][max_retries])
                                = <<current_anon_id, current_client_id>>

\* What C17 says of a step of app.py: a step that changes a global is a step of
\* generate_new_keys, made for /refresh-keys or by a call whose last outcome is
\* a 422 on its first or second attempt.
C17_Step ==
    (variant = "app" /\ globals' # globals) =>
        \E t \in Threads :
            /\ pc[t] \in {"gen_anon", "gen_client"}
            /\ pc'[t] # pc[t]
            /\ \/ request[t] = RefreshRequest
               \/ /\ request[t].route = "/api/generate"
                  /\ Len(outcomes[t]) \in 1..(max_retries - 1)
                  /\ Rejected422(LastOutcome(t))

(***************************************************************************)
(* C17, amended: in app.py get_magic_image replaces the process-wide pair  *)
(* only after a 422 with attempts left; an image, a 200 without image,     *)
(* another status, a timeout, a network failure and a 422 on the third     *)
(* attempt leave it alone, so after "Keys rejected" the cached pair is the *)
(* pair the upstream rejected last unless another request has replaced it. *)
(***************************************************************************)
C17_ReplacedOnlyOnRetried422 == []C17_State /\ [][C17_Step]_vars

\* Three 422s in app.py beside a /refresh-keys that is over: two regenerations
\* by the call, and the pair of the third post is still the cached one.
C17_Witness ==
    \E t \in Threads :
        /\ variant = "app"
        /\ calls = 2
        /\ KeysRejected(t)
        /\ Len(outcomes[t]) = 3
        /\ \A i \in 1..3 : Rejected422(outcomes[t][i])
        /\ regenerated[t] = 2
        /\ Credentials(sent[t][3]) = <<current_anon_id, current_client_id>>
        /\ Credentials(sent[t][3]) # Credentials(sent[t][2])

\* The attempts of t's call that timed out and were followed by another post.
RetriedTimeouts(t) ==
    {i \in DOMAIN outcomes[t] : TimedOut(outcomes[t][i]) /\ i + 1 \in DOMAIN sent[t]}

\* The values of the pairs t's call sent on its first i attempts.
SentValues(t, i) ==
    UNION {{sent[t][j].anonymous_user_id, sent[t][j].client_id} : j \in 1..i}

(***************************************************************************)
(* C12 as claimed: in either variant the retry after a timeout sends the   *)
(* pair of the attempt that timed out.                                     *)
(***************************************************************************)
C12_TimeoutKeepsPair_Claimed ==
    \A t \in Threads : \A i \in RetriedTimeouts(t) :
        Credentials(sent[t][i + 1]) = Credentials(sent[t][i])

(***************************************************************************)
(* C12, amended: in app.py the call draws no key after a timeout, so the   *)
(* retry sends the pair of the attempt that timed out unless another       *)
(* request has replaced the process-wide pair in between: each value it    *)
(* sends is the one of the timed-out attempt or was drawn by another       *)
(* request, and the pair is the same when no other request was served; in  *)
(* index.py that retry, like every attempt, sends two values drawn for it, *)
(* neither of them sent before.                                            *)
(***************************************************************************)
C12_TimeoutKeepsPair ==
    \A t \in Threads : \A i \in RetriedTimeouts(t) :
        IF variant = "app"
        THEN /\ \/ sent[t][i + 1].anonymous_user_id = sent[t][i].anonymous_user_id
                \/ sent[t][i + 1].anonymous_user_id \notin DrawsOf(callno[t])
             /\ \/ sent[t][i + 1].client_id = sent[t][i].client_id
                \/ sent[t][i + 1].client_id \notin DrawsOf(callno[t])
             /\ calls = 1 => Credentials(sent[t][i + 1]) = Credentials(sent[t][i])
        ELSE /\ sent[t][i + 1].anonymous_user_id \notin SentValues(t, i)
             /\ sent[t][i + 1].client_id \notin SentValues(t, i)

\* app.py: a timeout on the first attempt and a second post with the same pair,
\* while another call is running.
C12_Witness ==
    \E t \in Threads :
        /\ variant = "app"
        /\ calls = 2
        /\ Len(sent[t]) >= 2
        /\ TimedOut(outcomes[t][1])
        /\ Credentials(sent[t][2]) = Credentials(sent[t][1])

\* Thread t runs or has run a call of get_magic_image that started after another
\* call had ended in a failure.
AfterFailure(t) == after_failure[t] # 0 /\ prompt[t] # None

\* The sleeps of t's call that are over.
SleepsOver(t) == Len(sleeps[t]) - (IF pc[t] = "sleeping" THEN 1 ELSE 0)

\* The later call starts with all three attempts, of which it has used one for
\* each of its own sleeps, and its result is the one the branch of its own last
\* outcome gives for its own attempt count.
C14_OwnBudgetOwnResult ==
    \A t \in Threads :
        AfterFailure(t) =>
            /\ attempt[t] = SleepsOver(t)
            /\ Len(sent[t]) <= attempt[t] + 1
            /\ (pc[t] = "attempt" /\ sent[t] = <<>>) => attempt[t] = 0
            /\ Returned(t) =>
                  result[t] = Handle(variant, Len(outcomes[t]) - 1, LastOutcome(t)).value

\* The later call sends nothing the failed call drew.
NothingCarriedOver ==
    \A t \in Threads :
        AfterFailure(t) =>
            \A j \in DOMAIN sent[t] :
                /\ sent[t][j].anonymous_user_id \notin DrawsOf(after_failure[t])
                /\ sent[t][j].client_id \notin DrawsOf(after_failure[t])

(***************************************************************************)
(* C14 as claimed: a call made after a failed call has its full budget,    *)
(* its result depends on its own outcomes only, and nothing of the failed  *)
(* call is carried into it, in either variant.                             *)
(***************************************************************************)
C14_NoCarryOver_Claimed == C14_OwnBudgetOwnResult /\ NothingCarriedOver

(***************************************************************************)
(* C14: a call made after a failed call starts with its full budget of 3   *)
(* attempts and its result is decided by the outcomes of its own attempts; *)
(* in index.py nothing of the failed call is carried into it, while in     *)
(* app.py the process-wide pair the failed call left is (see the witness). *)
(***************************************************************************)
C14_FailureDoesNotAffectNext ==
    /\ C14_OwnBudgetOwnResult
    /\ variant = "index" => NothingCarriedOver

\* app.py: a call made after a failed call has used all three attempts, the
\* first of them with the pair the failed call had drawn.
C14_Witness ==
    \E t \in Threads :
        /\ variant = "app"
        /\ AfterFailure(t)
        /\ Returned(t)
        /\ Len(sent[t]) = 3
        /\ sent[t][1].anonymous_user_id \in DrawsOf(after_failure[t])
        /\ sent[t][1].client_id \in DrawsOf(after_failure[t])

\* Thread t runs or has run a call of get_magic_image that got no 422 so far.
NeverRejected(t) ==
    /\ prompt[t] # None
    /\ \A i \in DOMAIN outcomes[t] : ~Rejected422(outcomes[t][i])

(***************************************************************************)
(* C13: app.py under concurrent threads.  A call that never got a 422      *)
(* draws no key itself, so when two of its attempts carry different pairs  *)
(* (the witness: a reachable interleaving) the pair was replaced by        *)
(* another request between them.                                           *)
(***************************************************************************)
C13_OnlyOthersReplaceThePair ==
    \A t \in Threads :
        (variant = "app" /\ NeverRejected(t)) =>
            /\ regenerated[t] = 0
            /\ uuid_draws[t] = 0
            /\ pc[t] \notin {"gen_anon", "gen_client"}
            /\ \A j \in DOMAIN sent[t] :
                  /\ sent[t][j].anonymous_user_id \notin DrawsOf(callno[t])
                  /\ sent[t][j].client_id \notin DrawsOf(callno[t])

\* One call met a refused connection and was retried without ever getting a
\* 422; its first two posts carry different pairs, the second one drawn by the
\* other thread's call after that call's 422.
C13_Witness ==
    \E t \in Threads, u \in Threads :
        /\ u # t
        /\ NeverRejected(t)
        /\ Len(sent[t]) >= 2
        /\ NetworkFailure(outcomes[t][1])
        /\ Credentials(sent[t][2]) # Credentials(sent[t][1])
        /\ request[u].route = "/api/generate"
        /\ Len(outcomes[u]) >= 1
        /\ Rejected422(outcomes[u][1])
        /\ regenerated[u] >= 1
        /\ Credentials(sent[t][2]) = <<Str(Uuid(callno[u], 1)), Str(Uuid(callno[u], 2))>>

\* The pairs one generate_new_keys call produces: its two draws, the first and
\* second of the module's start-up call 0, or two consecutive draws of a later
\* call.
GeneratedPairs ==
    {<<Str(Uuid(c, n)), Str(Uuid(c, n + 1))>> : c \in 0..calls, n \in {1, 3, 5}}

(***************************************************************************)
(* C20: in app.py under concurrent threads every post carries a pair whose *)
(* two values were produced by one generate_new_keys call; no post carries *)
(* the anonymous id of one generation with the client id of another.       *)
(***************************************************************************)
C20_NoMixedPair ==
    variant = "app" =>
        \A t \in Threads : \A j \in DOMAIN sent[t] :
            Credentials(sent[t][j]) \in GeneratedPairs

=============================================================================
